---- MODULE Spec2Model ----
(***************************************************************************)
(* A model of pyxlsb/writer.py: RecordWriter, SemiflexibleHandlers and     *)
(* BIFF12Writer, writing BIFF12 records to a seekable byte sink.           *)
(*                                                                         *)
(* Python values are modelled as follows.                                  *)
(*   int    a record [hi, lo] with value hi * 65536 + lo, lo < 65536 (two  *)
(*          limbs, so that 0xFFFFFFFF and beyond stay representable);      *)
(*   bytes  a sequence of numbers 0..255;                                  *)
(*   str    a sequence of Unicode code points;                             *)
(*   float  a record [neg, mant, exp] with value (-1)^neg * mant * 2^exp;  *)
(*   a value handed to write_string / write_obj_str is tagged:             *)
(*          [t |-> "int" | "str" | "obj", v |-> ...], where the v of an    *)
(*          "obj" is the text str(obj) returns.                            *)
(* The sink (self._fp) is a seekable binary file such as io.BytesIO: its   *)
(* content, its position, and the outcome of the operation under way.      *)
(***************************************************************************)
EXTENDS Integers, Sequences, FiniteSets, TLC

VARIABLES buf, pos, handlers, np, last, moved, nops

vars == <<buf, pos, handlers, np, last, moved, nops>>

\* The number of operations issued in one run.
MaxOps == 2

(***************************************************************************)
(* Python integers and the bit operations the code applies to them.        *)
(***************************************************************************)
RECURSIVE Pow2(_)
Pow2(n) == IF n = 0 THEN 1 ELSE 2 * Pow2(n - 1)

\* The size of one limb of a Python int.
Limb == Pow2(16)

PyInt(hi, lo) == [hi |-> hi, lo |-> lo]

\* A small natural number (a len(), a size) as a Python int.
IntOf(n) == PyInt(n \div Limb, n % Limb)


\* val >> n
ShiftR(val, n) ==
    IF n < 16
    THEN PyInt(val.hi \div Pow2(n),
             (val.lo \div Pow2(n)) + (val.hi % Pow2(n)) * Pow2(16 - n))
    ELSE LET t == val.hi \div Pow2(n - 16) IN PyInt(t \div Limb, t % Limb)

\* a & b on naturals
RECURSIVE BitAnd(_, _)
BitAnd(a, b) ==
    IF a = 0 \/ b = 0 THEN 0
    ELSE (a % 2) * (b % 2) + 2 * BitAnd(a \div 2, b \div 2)

\* val & mask, for a mask below 2^16: a plain number
AndMask(val, mask) == BitAnd(val.lo, mask)

(***************************************************************************)
(* The struct packers imported from pyxlsb.reader.                         *)
(***************************************************************************)
Packed(bytes) == [err |-> "", bytes |-> bytes]
StructError == [err |-> "struct.error", bytes |-> <<>>]

\* struct.Struct('<B').pack
uint8_t_pack(val) ==
    IF val.hi = 0 /\ val.lo < 256 THEN Packed(<<val.lo>>) ELSE StructError

\* struct.Struct('<H').pack
uint16_t_pack(val) ==
    IF val.hi = 0 THEN Packed(<<val.lo % 256, val.lo \div 256>>) ELSE StructError

\* struct.Struct('<I').pack
uint32_t_pack(val) ==
    IF val.hi < Limb
    THEN Packed(<<val.lo % 256, val.lo \div 256, val.hi % 256, val.hi \div 256>>)
    ELSE StructError

\* The position of the highest set bit of m > 0.
RECURSIVE HighBit(_)
HighBit(m) == IF m < 2 THEN 0 ELSE 1 + HighBit(m \div 2)

\* struct.Struct('<d').pack: IEEE 754 binary64, little-endian. The mantissas
\* used have at most five bits, so the fraction lies in the top four bits.
double_t_pack(x) ==
    LET sign == IF x.neg THEN 32768 ELSE 0
        h == HighBit(x.mant)
        top == IF x.mant = 0 THEN sign
               ELSE sign + (1023 + h + x.exp) * 16
                         + (x.mant - Pow2(h)) * Pow2(4 - h)
    IN  Packed(<<0, 0, 0, 0, 0, 0, top % 256, top \div 256>>)

(***************************************************************************)
(* The sink.                                                               *)
(***************************************************************************)
Zeros(n) == [i \in 1..n |-> 0]

\* self._fp.write(data): data replaces the content at the position, which
\* then moves past it; a position beyond the end is first filled with zeros.
fp_write(f, data) ==
    IF f.err # "" \/ data = <<>> THEN f
    ELSE LET n == Len(f.buf)
             head == IF f.pos <= n THEN SubSeq(f.buf, 1, f.pos)
                     ELSE f.buf \o Zeros(f.pos - n)
             tail == SubSeq(f.buf, f.pos + Len(data) + 1, n)
         IN  [f EXCEPT !.buf = head \o data \o tail,
                       !.pos = f.pos + Len(data),
                       !.out = f.out \o data]

Raise(f, e) == IF f.err # "" THEN f ELSE [f EXCEPT !.err = e]

\* Write what a packer returned, or raise what it raised.
WritePacked(f, p) == IF p.err # "" THEN Raise(f, p.err) ELSE fp_write(f, p.bytes)

(***************************************************************************)
(* RecordWriter.                                                           *)
(***************************************************************************)
\* write, rewinding the sink before each write.
write_rewound(f, data) == fp_write([f EXCEPT !.pos = 0], data)

\* RecordWriter.write
write(f, data) == fp_write(f, data)

\* RecordWriter.write_len: the loop from step i on.
RECURSIVE write_len_from(_, _, _)
write_len_from(f, val, i) ==
    IF i >= 4 \/ f.err # "" THEN f
    ELSE LET nearlybyte == AndMask(ShiftR(val, 7 * i), 127)
             f1 == WritePacked(f, uint8_t_pack(IntOf(nearlybyte)))
         IN  IF BitAnd(nearlybyte, 128) = 0 THEN f1
             ELSE write_len_from(f1, val, i + 1)

write_len(f, val) == write_len_from(f, val, 0)

\* The common body of write_int, write_short, write_byte and write_double:
\* pack, then the optional length, then the payload.
WritePayload(f, p, do_write_len) ==
    IF p.err # "" THEN Raise(f, p.err)
    ELSE LET f1 == IF do_write_len THEN write_len(f, IntOf(Len(p.bytes))) ELSE f
         IN  fp_write(f1, p.bytes)

write_int(f, val, do_write_len) == WritePayload(f, uint32_t_pack(val), do_write_len)

write_short(f, val, do_write_len) == WritePayload(f, uint16_t_pack(val), do_write_len)

write_byte(f, val, do_write_len) == WritePayload(f, uint8_t_pack(val), do_write_len)

\* writer.py never imports struct: evaluating the name raises NameError
\* before anything is packed or written.
write_float(f, val, do_write_len) == Raise(f, "NameError")

write_double(f, val, do_write_len) == WritePayload(f, double_t_pack(val), do_write_len)

\* One code point as UTF-16LE bytes; errors='replace' turns a lone
\* surrogate into '?'.
Utf16Units(c) ==
    IF c >= 55296 /\ c <= 57343 THEN <<63, 0>>
    ELSE IF c < 65536 THEN <<c % 256, c \div 256>>
    ELSE LET v == c - 65536
             hs == 55296 + (v \div 1024)
             ls == 56320 + (v % 1024)
         IN  <<hs % 256, hs \div 256, ls % 256, ls \div 256>>

RECURSIVE Utf16Body(_)
Utf16Body(s) == IF s = <<>> THEN <<>> ELSE Utf16Units(Head(s)) \o Utf16Body(Tail(s))

\* str.encode('utf-16', errors='replace') on a little-endian host: the
\* byte-order mark FF FE, then the code units.
str_encode(s) == <<255, 254>> \o Utf16Body(s)

\* bytes.lstrip(chars): drops every leading byte that is one of chars.
RECURSIVE lstrip(_, _)
lstrip(data, chars) ==
    IF data # <<>> /\ Head(data) \in chars THEN lstrip(Tail(data), chars) ELSE data

\* RecordWriter.write_string
write_string(f, str_data) ==
    IF str_data.t = "str"
    THEN LET data == lstrip(str_encode(str_data.v), {255, 254})
             size == Len(data) \div 2
             f1 == write_int(f, IntOf(size), FALSE)
         IN  fp_write(f1, data)
    ELSE \* no .encode: AttributeError, caught
         IF str_data.t = "int" THEN write_int(f, str_data.v, FALSE)
         ELSE Raise(f, "struct.error")

\* isinstance(obj, int)
str_data_is_int(obj) == obj.t = "int"

\* write_obj_str, writing a length before a shared-string index.
write_obj_str_prefixed(f, obj) ==
    IF str_data_is_int(obj) THEN write_int(f, obj.v, TRUE)
    ELSE write_string(f, [t |-> "str", v |-> obj.v])

\* RecordWriter.write_obj_str
write_obj_str(f, obj) ==
    IF str_data_is_int(obj) THEN write_int(f, obj.v, FALSE)
    ELSE write_string(f, [t |-> "str", v |-> obj.v])

(***************************************************************************)
(* SemiflexibleHandlers: a dict from keys to (tag, encoder) pairs.         *)
(* Keys are named by their Python spelling.                                *)
(***************************************************************************)
BaseTypes == {"int", "float", "bool", "str"}

NumpyDtypes == {"dtype('int64')", "dtype('int32')", "dtype('int16')",
                "dtype('int8')", "dtype('float64')", "dtype('float32')",
                "dtype('float16')", "dtype('bool8')", "dtype('object')"}

\* Keys that are not registered: an int, a bool, a float, a str, None, and
\* a class that is not registered.
OtherKeys == {"7", "True", "2.5", "'abc'", "None", "numpy.float64"}

Keys == BaseTypes \cup NumpyDtypes \cup OtherKeys

\* The base classes a key is an instance of (bool is a subclass of int).
ClassesOf(key) ==
    CASE key = "7" -> {"int"}
      [] key = "True" -> {"bool", "int"}
      [] key = "2.5" -> {"float"}
      [] key = "'abc'" -> {"str"}
      [] OTHER -> {}

isinstance(key, cls) == cls \in ClassesOf(key)

NoEntry == <<>>

\* SemiflexibleHandlers.__init__
initial_handlers(numpy) ==
    [key \in Keys |->
        CASE key \in {"int", "float"} -> <<"FLOAT", "write_double">>
          [] key = "bool" -> <<"BOOL", "write_byte">>
          [] key = "str" -> <<"STRING", "write_string">>
          [] numpy /\ key \in {"dtype('int64')", "dtype('float64')"}
                -> <<"FLOAT", "write_double">>
          [] numpy /\ key = "dtype('int32')" -> <<"NUM", "write_int">>
          [] numpy /\ key = "dtype('int16')" -> <<"NUM", "write_short">>
          [] numpy /\ key = "dtype('int8')" -> <<"NUM", "write_byte">>
          [] numpy /\ key \in {"dtype('float32')", "dtype('float16')"}
                -> <<"FLOAT", "write_float">>
          [] numpy /\ key = "dtype('bool8')" -> <<"BOOL", "write_byte">>
          [] numpy /\ key = "dtype('object')" -> <<"STRING", "write_obj_str">>
          [] OTHER -> NoEntry]

\* SemiflexibleHandlers.__missing__: the value returned and the table left.
missing(h, key) ==
    LET value == IF isinstance(key, "int") THEN h["int"]
                 ELSE IF isinstance(key, "float") THEN h["float"]
                 ELSE IF isinstance(key, "bool") THEN h["bool"]
                 ELSE IF isinstance(key, "str") THEN h["str"]
                 ELSE <<"STRING", "write_obj_str">>
    IN  [value |-> value, table |-> [h EXCEPT ![key] = value]]

\* self[key], classifying the key again on every lookup.
getitem_uncached(h, key) ==
    LET r == missing(h, key)
    IN  [value |-> r.value, table |-> r.table, missed |-> TRUE]

\* self[key] on the dict subclass: the entry, or __missing__(key).
getitem(h, key) ==
    IF h[key] # NoEntry
    THEN [value |-> h[key], table |-> h, missed |-> FALSE]
    ELSE LET r == missing(h, key)
         IN  [value |-> r.value, table |-> r.table, missed |-> TRUE]

(***************************************************************************)
(* BIFF12Writer.                                                           *)
(***************************************************************************)
\* BIFF12Writer.write_id: the loop from step i on.
RECURSIVE write_id_from(_, _, _)
write_id_from(f, val, i) ==
    IF i >= 4 \/ f.err # "" THEN f
    ELSE LET byte == AndMask(ShiftR(val, 8 * i), 255)
             payload == uint8_t_pack(IntOf(byte))
             f1 == IF payload.err # "" THEN Raise(f, payload.err)
                   ELSE write(f, payload.bytes)
         IN  IF BitAnd(byte, 128) = 0 THEN f1
             ELSE write_id_from(f1, val, i + 1)

\* write_id, written with the length codec's 7-bit groups.
write_id_7bit(f, val) == write_len(f, val)

write_id(f, val) == write_id_from(f, val, 0)

\* BIFF12Writer.write_string
BIFF12Writer_write_string(f, str_data) == write_string(f, str_data)

\* BIFF12Writer.write_bytes
write_bytes(f, bytes_data) ==
    IF bytes_data.t # "bytes" THEN Raise(f, "AssertionError")
    ELSE LET f1 == write_len(f, IntOf(Len(bytes_data.v)))
         IN  IF Len(bytes_data.v) # 0 THEN write(f1, bytes_data.v) ELSE f1

(***************************************************************************)
(* The inputs the operations are called with.                              *)
(***************************************************************************)
\* 0, 0x7F, 0xFF, 0x100
ByteInputs == {PyInt(0, 0), PyInt(0, 127), PyInt(0, 255), PyInt(0, 256)}

\* 0, 0x1234, 0xFFFF, 0x10000
ShortInputs == {PyInt(0, 0), PyInt(0, 4660), PyInt(0, 65535), PyInt(1, 0)}

\* 0, 0x01020304, 0xFFFFFFFF, 0x100000000
IntInputs == {PyInt(0, 0), PyInt(258, 772), PyInt(65535, 65535), PyInt(65536, 0)}

\* 0.0, 1.0, -2.5
FloatInputs == {[neg |-> FALSE, mant |-> 0, exp |-> 0],
                [neg |-> FALSE, mant |-> 1, exp |-> 0],
                [neg |-> TRUE, mant |-> 5, exp |-> -1]}

\* 0, 1, 127, 128, 255, 300, 16384
LenInputs == {IntOf(0), IntOf(1), IntOf(127), IntOf(128), IntOf(255),
              IntOf(300), IntOf(16384)}

\* 0, 0x7F, 0x80, 0xFF, 0x0180, 0x8080, 0x808080, 0x80808080, 0x01020304,
\* 0xFFFFFFFF, 0x1FFFFFFFF
IdInputs == {PyInt(0, 0), PyInt(0, 127), PyInt(0, 128), PyInt(0, 255),
             PyInt(0, 384), PyInt(0, 32896), PyInt(128, 32896),
             PyInt(32896, 32896), PyInt(258, 772), PyInt(65535, 65535),
             PyInt(131071, 65535)}

\* Code points: A, B, U+00FE, U+00FF, U+FEFF (the byte-order mark),
\* U+1F600 (outside the BMP), U+D800 (a lone surrogate).
StrInputs == {<<>>, <<65>>, <<65, 66>>, <<255>>, <<254>>, <<255, 65>>,
              <<65, 255>>, <<65279, 65>>, <<65279, 65279, 65>>,
              <<128512>>, <<55296>>}

\* What write_string and write_obj_str are handed: text, a shared-string
\* index (0, 5, 0xFFFFFFFF), or another object, whose str() is "A".
TextOrRef ==
    [t : {"str"}, v : StrInputs]
    \cup [t : {"int"}, v : {PyInt(0, 0), PyInt(0, 5), PyInt(65535, 65535)}]
    \cup [t : {"obj"}, v : {<<65>>}]

ObjInputs ==
    [t : {"int"}, v : {PyInt(0, 0), PyInt(0, 5), PyInt(65535, 65535)}]
    \cup [t : {"obj"}, v : {<<65>>}]
    \cup [t : {"str"}, v : {<<65, 66>>}]

\* n bytes, none of them zero.
Blob(n) == [i \in 1..n |-> 1 + (i % 255)]

BlobInputs == [t : {"bytes"}, v : {Blob(0), Blob(1), Blob(2), Blob(127),
                                   Blob(128), Blob(130)}]
              \cup [t : {"str"}, v : {<<65>>}]

RawInputs == {<<>>, <<170>>, <<1, 2, 3>>}

SeekInputs == {0, 1, 6}

SkipInputs == {-1, 2}

(***************************************************************************)
(* The state: the sink's content and position, the handlers table, whether *)
(* numpy was imported, the last operation and its outcome, whether a seek  *)
(* or skip has been issued, and the number of operations so far.           *)
(***************************************************************************)
File == [buf |-> buf, pos |-> pos, out |-> <<>>, err |-> ""]

NoOp == [op |-> "init", arg |-> <<>>, len |-> FALSE, out |-> <<>>, err |-> "",
         value |-> NoEntry, missed |-> FALSE]

\* BIFF12Writer.__init__ on an empty sink; the class attribute handlers.
Init ==
    /\ buf = <<>>
    /\ pos = 0
    /\ np \in BOOLEAN
    /\ handlers = initial_handlers(np)
    /\ last = NoOp
    /\ moved = FALSE
    /\ nops = 0

\* The state after a write operation that left the sink as r.
Wrote(op, arg, do_write_len, r) ==
    /\ nops < MaxOps
    /\ buf' = r.buf
    /\ pos' = r.pos
    /\ last' = [NoOp EXCEPT !.op = op, !.arg = arg, !.len = do_write_len,
                            !.out = r.out, !.err = r.err]
    /\ nops' = nops + 1
    /\ UNCHANGED <<handlers, np, moved>>

Write == \E data \in RawInputs : Wrote("write", data, FALSE, write(File, data))

WriteInt ==
    \E val \in IntInputs, l \in BOOLEAN :
        Wrote("write_int", val, l, write_int(File, val, l))

WriteShort ==
    \E val \in ShortInputs, l \in BOOLEAN :
        Wrote("write_short", val, l, write_short(File, val, l))

WriteByte ==
    \E val \in ByteInputs, l \in BOOLEAN :
        Wrote("write_byte", val, l, write_byte(File, val, l))

WriteFloat ==
    \E val \in FloatInputs, l \in BOOLEAN :
        Wrote("write_float", val, l, write_float(File, val, l))

WriteDouble ==
    \E val \in FloatInputs, l \in BOOLEAN :
        Wrote("write_double", val, l, write_double(File, val, l))

WriteString ==
    \E s \in TextOrRef :
        Wrote("write_string", s, FALSE, BIFF12Writer_write_string(File, s))

WriteObjStr ==
    \E obj \in ObjInputs : Wrote("write_obj_str", obj, FALSE, write_obj_str(File, obj))

WriteLen == \E val \in LenInputs : Wrote("write_len", val, FALSE, write_len(File, val))

WriteId == \E val \in IdInputs : Wrote("write_id", val, FALSE, write_id(File, val))

WriteBytes == \E b \in BlobInputs : Wrote("write_bytes", b, FALSE, write_bytes(File, b))

\* RecordWriter.seek(offset), whence = os.SEEK_SET
Seek ==
    \E offset \in SeekInputs :
        /\ nops < MaxOps
        /\ pos' = offset
        /\ moved' = TRUE
        /\ last' = [NoOp EXCEPT !.op = "seek", !.arg = offset]
        /\ nops' = nops + 1
        /\ UNCHANGED <<buf, handlers, np>>

\* RecordWriter.skip(size), for a size the sink accepts
Skip ==
    \E size \in SkipInputs :
        /\ nops < MaxOps
        /\ pos + size >= 0
        /\ pos' = pos + size
        /\ moved' = TRUE
        /\ last' = [NoOp EXCEPT !.op = "skip", !.arg = size]
        /\ nops' = nops + 1
        /\ UNCHANGED <<buf, handlers, np>>

\* RecordWriter.tell
tell == pos

\* BIFF12Writer.handlers[key]; a dtype is a key only where numpy is.
Lookup ==
    \E key \in Keys :
        /\ nops < MaxOps
        /\ key \in NumpyDtypes => np
        /\ LET r == getitem(handlers, key)
           IN  /\ handlers' = r.table
               /\ last' = [NoOp EXCEPT !.op = "lookup", !.arg = key,
                                       !.value = r.value, !.missed = r.missed]
        /\ nops' = nops + 1
        /\ UNCHANGED <<buf, pos, np, moved>>

Next ==
    \/ Write \/ WriteInt \/ WriteShort \/ WriteByte \/ WriteFloat
    \/ WriteDouble \/ WriteString \/ WriteObjStr \/ WriteLen \/ WriteId
    \/ WriteBytes \/ Seek \/ Skip \/ Lookup

Spec == Init /\ [][Next]_vars

(***************************************************************************)
(* The reading side, for stating what a written stream decodes to.         *)
(***************************************************************************)
\* RecordReader.read_len: 7-bit groups, low group first, at most four
\* bytes, a set top bit announcing another byte. The value and the number
\* of bytes read.
RECURSIVE read_len_from(_, _)
read_len_from(bytes, i) ==
    IF i > Len(bytes) \/ i > 4 THEN [value |-> 0, used |-> i - 1]
    ELSE LET group == BitAnd(bytes[i], 127) * Pow2(7 * (i - 1))
         IN  IF BitAnd(bytes[i], 128) = 0 THEN [value |-> group, used |-> i]
             ELSE LET r == read_len_from(bytes, i + 1)
                  IN  [value |-> group + r.value, used |-> r.used]

read_len(bytes) == read_len_from(bytes, 1)

\* uint32_t.unpack of four bytes whose value is below 2^31.
read_int(bytes) ==
    bytes[1] + 256 * bytes[2] + 65536 * bytes[3] + 16777216 * bytes[4]

\* bytes.decode('utf-16-le') of whole code units.
RECURSIVE utf16le_decode(_)
utf16le_decode(bytes) ==
    IF Len(bytes) < 2 THEN <<>>
    ELSE LET u == bytes[1] + 256 * bytes[2]
         IN  IF u >= 55296 /\ u <= 56319 /\ Len(bytes) >= 4
                /\ bytes[3] + 256 * bytes[4] >= 56320
                /\ bytes[3] + 256 * bytes[4] <= 57343
             THEN <<65536 + (u - 55296) * 1024 + (bytes[3] + 256 * bytes[4] - 56320)>>
                  \o utf16le_decode(SubSeq(bytes, 5, Len(bytes)))
             ELSE <<u>> \o utf16le_decode(SubSeq(bytes, 3, Len(bytes)))

(***************************************************************************)
(* Properties.                                                             *)
(***************************************************************************)
\* The number a Python int stands for (for values below 2^31).
NumOf(val) == val.hi * Limb + val.lo

\* Byte i (0 the lowest) of a value below 2^32.
ByteOf(val, i) ==
    CASE i = 0 -> val.lo % 256
      [] i = 1 -> val.lo \div 256
      [] i = 2 -> val.hi % 256
      [] i = 3 -> val.hi \div 256

LittleEndian32(val) == [i \in 1..4 |-> ByteOf(val, i - 1)]

\* C1: write_id(val), val in 0..0xFFFFFFFF, writes without error the bytes
\* b0..b(k-1), b_i = (val >> 8*i) & 0xFF, where 1 <= k <= 4 and k is the
\* place of the first byte whose top bit is clear, or 4 when the first four
\* bytes all have it set; 0 gives the byte 0x00, 0x7F one byte, 0x80 the
\* two bytes 0x80 0x00, and 0xFFFFFFFF four bytes.
C1_WriteIdBytes ==
    (last.op = "write_id" /\ last.arg.hi < Limb) =>
        LET out == last.out
            k == Len(out)
        IN  /\ last.err = ""
            /\ k \in 1..4
            /\ \A i \in 1..k : out[i] = ByteOf(last.arg, i - 1)
            /\ \A i \in 1..(k - 1) : out[i] >= 128
            /\ k < 4 => out[k] < 128
            /\ last.arg = PyInt(0, 0) => out = <<0>>
            /\ last.arg = PyInt(0, 127) => k = 1
            /\ last.arg = PyInt(0, 128) => out = <<128, 0>>
            /\ last.arg = PyInt(65535, 65535) => k = 4

\* write_id(0x8080) has written three bytes, the last with its top bit clear.
C1_Witness ==
    /\ last.op = "write_id"
    /\ last.arg = PyInt(0, 32896)
    /\ last.out = <<128, 128, 0>>

\* C2: write_len(val) with a val beyond what the length encoding can
\* represent fails with an error; it never returns normally having written
\* bytes that decode to a value other than val.
C2_LenOverflowFails ==
    last.op = "write_len" =>
        /\ NumOf(last.arg) > 127 => last.err # ""
        /\ last.err = "" => read_len(last.out).value = NumOf(last.arg)

\* C3: write_bytes(b) writes a length prefix that decodes to len(b),
\* followed by exactly the bytes of b; a primitive write with
\* do_write_len=True writes a prefix equal to the payload's byte count.
C3_DeclaredLength ==
    /\ (last.op = "write_bytes" /\ last.err = "") =>
          LET r == read_len(last.out)
          IN  /\ r.value = Len(last.arg.v)
              /\ SubSeq(last.out, r.used + 1, Len(last.out)) = last.arg.v
    /\ (last.len /\ last.err = "") =>
          LET r == read_len(last.out)
          IN  r.value = Len(last.out) - r.used

\* C4: write_string(s) of a text s writes a 32-bit little-endian unit count
\* n and then a payload of exactly 2*n bytes, an even number.
C4_EvenPayload ==
    (last.op = "write_string" /\ last.arg.t = "str" /\ last.err = "") =>
        LET n == read_int(SubSeq(last.out, 1, 4))
            payload == SubSeq(last.out, 5, Len(last.out))
        IN  /\ Len(payload) % 2 = 0
            /\ Len(payload) = 2 * n

IsSurrogate(c) == c >= 55296 /\ c <= 57343

\* C5: the payload write_string(s) wrote, read back as n UTF-16LE code
\* units, is s, or s less its leading byte-order mark if it has one (s any
\* well-formed text: no lone surrogate).
C5_TextRoundTrip ==
    (/\ last.op = "write_string" /\ last.arg.t = "str" /\ last.err = ""
     /\ \A i \in 1..Len(last.arg.v) : ~IsSurrogate(last.arg.v[i])) =>
        LET s == last.arg.v
            n == read_int(SubSeq(last.out, 1, 4))
            back == utf16le_decode(SubSeq(last.out, 5, 4 + 2 * n))
        IN  back = IF s # <<>> /\ Head(s) = 65279 THEN Tail(s) ELSE s

\* C6: write_string(i) and write_obj_str(i) with an integer i in
\* 0..0xFFFFFFFF write the four little-endian bytes of i and nothing else.
C6_IntegerPassthrough ==
    (/\ last.op \in {"write_string", "write_obj_str"}
     /\ last.arg.t = "int"
     /\ last.arg.v.hi < Limb) =>
        /\ last.err = ""
        /\ last.out = LittleEndian32(last.arg.v)

\* write_obj_str(5) has written 05 00 00 00.
C6_Witness ==
    /\ last.op = "write_obj_str"
    /\ last.arg = [t |-> "int", v |-> PyInt(0, 5)]
    /\ last.out = <<5, 0, 0, 0>>

\* C7: a lookup that found no entry resolves a whole number to the int
\* entry, a real number to the float entry, a boolean to the bool entry
\* (BOOL, write_byte), a text to the str entry (STRING, write_string) and
\* anything else to (STRING, write_obj_str), and stores what it resolved.
C7_Resolution ==
    (last.op = "lookup" /\ last.missed) =>
        LET key == last.arg
        IN  /\ isinstance(key, "bool") => last.value = <<"BOOL", "write_byte">>
            /\ (isinstance(key, "int") /\ ~isinstance(key, "bool"))
                  => last.value = <<"FLOAT", "write_double">>
            /\ isinstance(key, "float") => last.value = <<"FLOAT", "write_double">>
            /\ isinstance(key, "str") => last.value = <<"STRING", "write_string">>
            /\ ClassesOf(key) = {} => last.value = <<"STRING", "write_obj_str">>
            /\ handlers[key] = last.value

\* C8: a lookup of a key the table holds returns that entry without running
\* __missing__; no lookup changes or removes an entry the table holds; a
\* lookup adds at most the entry of the key looked up, the value returned.
C8_Memoized ==
    [][last'.op = "lookup" =>
          LET key == last'.arg
          IN  /\ handlers[key] # NoEntry =>
                    (~last'.missed /\ last'.value = handlers[key])
              /\ \A k \in Keys : handlers[k] # NoEntry => handlers'[k] = handlers[k]
              /\ \A k \in Keys : handlers'[k] # handlers[k] => k = key
              /\ handlers'[key] = last'.value]_vars

\* The int 7 was looked up a second time and found in the table.
C8_Witness ==
    /\ last.op = "lookup"
    /\ last.arg = "7"
    /\ ~last.missed
    /\ last.value = <<"FLOAT", "write_double">>

\* The width of each primitive write's payload.
Width(op) ==
    CASE op = "write_byte" -> 1
      [] op = "write_short" -> 2
      [] op \in {"write_int", "write_float"} -> 4
      [] op = "write_double" -> 8

InRange(op, val) ==
    CASE op = "write_byte" -> val.hi = 0 /\ val.lo < 256
      [] op = "write_short" -> val.hi = 0
      [] op = "write_int" -> val.hi < Limb
      [] OTHER -> TRUE

\* C9: write_byte, write_short, write_int, write_float and write_double
\* raise nothing and write 1, 2, 4, 4 and 8 payload bytes (integers
\* little-endian), preceded by nothing, or with do_write_len=True by one
\* byte holding that width.
C9_PrimitiveWidths ==
    (/\ last.op \in {"write_byte", "write_short", "write_int",
                     "write_float", "write_double"}
     /\ InRange(last.op, last.arg)) =>
        LET w == Width(last.op)
            skip == IF last.len THEN 1 ELSE 0
        IN  /\ last.err = ""
            /\ Len(last.out) = skip + w
            /\ last.len => last.out[1] = w
            /\ last.op \in {"write_byte", "write_short", "write_int"} =>
                  \A i \in 1..w : last.out[skip + i] = ByteOf(last.arg, i - 1)

WriteOps == {"write", "write_int", "write_short", "write_byte", "write_double",
             "write_string", "write_len", "write_id", "write_bytes"}

\* C10: each write operation puts its bytes at the current position, which
\* grows by the number of bytes written; what lies before the position
\* stays; as long as no seek or skip was issued the sink holds the
\* concatenation of the outputs in call order; the position moves
\* backwards only in a seek or skip.
C10_WriteOrder ==
    [][/\ last'.op \in WriteOps =>
            LET out == last'.out
            IN  /\ pos' = pos + Len(out)
                /\ \A i \in 1..Len(out) : buf'[pos + i] = out[i]
                /\ \A i \in 1..Len(buf) : i <= pos => buf'[i] = buf[i]
                /\ ~moved => (buf' = buf \o out /\ pos' = Len(buf'))
       /\ pos' < pos => last'.op \in {"seek", "skip"}]_vars

\* Two writes with no seek or skip: the second, a write_id, has put its
\* bytes after those of the first.
C10_Witness ==
    /\ nops = 2
    /\ ~moved
    /\ last.op = "write_id"
    /\ last.out = <<128, 0>>
    /\ Len(buf) > 2
    /\ pos = Len(buf)

====
